---- MODULE Spec2Model ----
(***************************************************************************)
(* A model of the StreamSort command shell (src/streamsort/_sh.py): the    *)
(* session loop `shell`, the line interpreter `process_line` with its      *)
(* helpers, and the sentences the interpreter hands the State to.          *)
(*                                                                         *)
(* A State is the record [api, mob, subshells]; a Mob is named by its id;  *)
(* a Query is either literal text or a Mob; a Sentence value is a record   *)
(* that says which Python callable it is (a registered sentence, the       *)
(* identity, a lambda returning a captured State, or a set_subshell        *)
(* closure).                                                               *)
(*                                                                         *)
(* The boundary scanner parse_input of src/sh.py is modelled beside it, as *)
(* a specification of its own (ScanSpec): the session loop splits its      *)
(* lines with str.split() and does not call the scanner.                   *)
(*                                                                         *)
(* LoopSpec is the session loop over raw lines: the reserved lines `exit`  *)
(* and `logout...`, and every other line split into tokens and handled.    *)
(***************************************************************************)
EXTENDS Integers, Sequences, FiniteSets, TLC

VARIABLES
    sentences,  \* shell: the registry built from the builtins and **extensions
    state,      \* shell: the current State
    status,     \* shell: SAFE / IDLE / WORK
    pc,         \* shell: "prompt" (blocked in input), "work" (line read),
                \*        "done" (line handled, before status = IDLE),
                \*        "exited" (returned), "crashed" (uncaught exception)
    line,       \* shell: the tokens of the line last read (line.split())
    prev,       \* history: the State the last line was interpreted against
    outcome,    \* history: what the last line did: ok, or the error caught
    invoked,    \* history: the sentence calls made while handling the line
    fetched,    \* history: the page requests made while handling the line
    typed,      \* shell: the line as input() returned it, a sequence of
                \*        characters
    logins,     \* shell: how many times login() has been called
    revoked,    \* history: the session handles of the States that were
                \*          current when a logout line removed the cache
    idiom,      \* history: how far the last lines have followed the
                \*          save-and-restore idiom, and the State it began in
    rawin,      \* parse_input: the raw line, a sequence of characters
    mode,       \* parse_input: the mode function the next character is given to
    flags,      \* parse_input: the [start, end] flags collected so far
    pos,        \* parse_input: the loop variable i of the first loop
    yielded,    \* parse_input: the tokens yielded
    spc         \* parse_input: "input" (not called), "scan" (first loop),
                \*              "slice" (after the last call of mode),
                \*              "yielded" (returned), "raised" (exception)

loopvars == <<typed, logins, revoked, idiom>>
sessionvars ==
    <<sentences, state, status, pc, line, prev, outcome, invoked, fetched,
      loopvars>>
scanvars == <<rawin, mode, flags, pos, yielded, spc>>
vars == <<sessionvars, scanvars>>

-----------------------------------------------------------------------------
(* Bounds *)

\* most tokens a line has after what it opens with
MaxLen == 1
\* most Scope Store entries, over all nesting depths, a State may hold
MaxSize == 2
\* most characters of a raw line given to the scanner
MaxRaw == 3
\* most Scope Store entries of a State in a session whose lines are typed
\* character by character
MaxStore == 3
\* most calls of login() in one session
MaxLogins == 2

-----------------------------------------------------------------------------
(* Program constants *)

SAFE == 0
IDLE == 1
WORK == 2

\* next(tokens, None) on an exhausted cursor
None == "<None>"

ControlWords == {"in", "after", "track", "nom"}

\* Mob({}): the absent Query
EmptyMob == "{}"

MSG_IN_PARAM == "Parameter may not start with 'in'. Perhaps use 'nom in'"
MSG_IN_MISSING == "Missing subshell name after 'in'"
MSG_IN_INVALID == "Invalid subshell name after 'in'"

MsgLoadParam(subsh_name) ==
    "Subshell loading does not take a parameter. " \o "Perhaps use 'in "
        \o subsh_name \o "..."

\* str(state) is written as the focus Mob of the State
MsgNoTracks(mob) == "'" \o mob \o "' does not contain tracks"

MsgTrackNotFound(track_nom) == "Track " \o track_nom \o " was not found"

-----------------------------------------------------------------------------
(* The tokens and lines the session is fed *)

\* str.split() never yields an empty token
Words == {"in", "after", "track", "nom", "open", "sub", "X"}

RECURSIVE SeqsUpTo(_)
SeqsUpTo(n) ==
    IF n = 0 THEN {<<>>}
    ELSE LET shorter == SeqsUpTo(n - 1)
         IN  shorter \cup {Append(s, w) : s \in {t \in shorter : Len(t) = n - 1},
                                          w \in Words}

\* what a line may open with: nothing, a subshell initiation, a subshell
\* extension, a sentence
Prefixes == { <<>>, <<"sub">>, <<"in", "sub">>, <<"open">> }

\* the worked examples of the module docstring and of the specification
Examples ==
    { <<"sub", "open", "X">>,
      <<"in", "sub", "after", "open", "Y">>,
      <<"in", "sub", "backtomain">>,
      <<"open", "nom", "nom">>,
      <<"open", "sub", "X">>,
      <<"open", "in", "sub">>,
      <<"track", "1">>,
      <<"open", "track", "2">>,
      <<"open", "track", "4">>,
      <<"open", "nom", "in", "X">>,
      <<"open", "after", "open", "X">>,
      <<"track", "sub">>,
      <<"track", "nom", "X", "sub">>,
      <<"track", "4", "X">>,
      <<"sub", "open", "sub">>,
      <<"in", "sub", "X", "sub">>,
      <<"open", "after", "sub", "open", "X">>,
      <<"open", "after", "in", "sub", "open", "Y">>,
      <<"track", "0">>,
      <<"track", "-1">>,
      <<"in", "sub", "track", "-1">> }

Lines == {p \o s : p \in Prefixes, s \in SeqsUpTo(MaxLen)} \cup Examples

-----------------------------------------------------------------------------
(* Values *)

State(api, mob, subshells) == [api |-> api, mob |-> mob, subshells |-> subshells]

NoSubshells == [k \in {} |-> None]

Text(str) == [kind |-> "text", text |-> str]
MobQuery(mob) == [kind |-> "mob", mob |-> mob]

\* a Query that Python's `not query` finds falsy: "" or an empty mapping
Falsy(query) ==
    IF query.kind = "text" THEN query.text = "" ELSE query.mob = EmptyMob

Ok(val, log) == [ok |-> TRUE, val |-> val, log |-> log]
Raise(type, msg, log) == [ok |-> FALSE, err |-> [type |-> type, msg |-> msg], log |-> log]

\* " ".join(tokens)
RECURSIVE Join(_)
Join(toks) ==
    IF toks = <<>> THEN ""
    ELSE IF Len(toks) = 1 THEN toks[1]
    ELSE toks[1] \o " " \o Join(Tail(toks))

\* str.lower() on the words of the vocabulary
Lower(w) == IF w = "X" THEN "x" ELSE IF w = "Y" THEN "y" ELSE IF w = "Z" THEN "z" ELSE w

RECURSIVE JoinLower(_)
JoinLower(toks) ==
    IF toks = <<>> THEN ""
    ELSE IF Len(toks) = 1 THEN Lower(toks[1])
    ELSE Lower(toks[1]) \o " " \o JoinLower(Tail(toks))

\* total number of Scope Store entries of a State, over all depths
RECURSIVE Size(_)
RECURSIVE SumSizes(_, _)
SumSizes(subshells, names) ==
    IF names = {} THEN 0
    ELSE LET k == CHOOSE n \in names : TRUE
         IN  1 + Size(subshells[k]) + SumSizes(subshells, names \ {k})
Size(st) == SumSizes(st.subshells, DOMAIN st.subshells)

-----------------------------------------------------------------------------
(* The remote catalog: what the Spotify client returns *)

\* spotify.me()
Me == "me"

\* the search behind ss_open: the Mob a text resolves to, None for no result
Search(text) ==
    IF text \in {"X", "Y"} THEN text ELSE None

\* mob["tracks"] exists: playlists and albums, not users and tracks
HasTracks(mob) == mob \in {"X", "Y"}

\* mob["tracks"]["items"], the materialized first page
PageZero(mob) ==
    IF mob = "X" THEN <<"t1">> ELSE IF mob = "Y" THEN <<"t1", "t2">> ELSE <<>>

\* the pages behind mob["tracks"]["next"]
NextPages(mob) ==
    IF mob = "X" THEN << <<"t2">>, <<"t3">> >> ELSE <<>>

\* t["name"].lower() of a track
LowerName(track) ==
    IF track = "t1" THEN "sub" ELSE IF track = "t2" THEN "4 x" ELSE "x sub"

-----------------------------------------------------------------------------
(* Sentences: src/streamsort/sentences.py *)

\* State(subject[0], out, subject[2]), or NoResultsError when out is None
Opened(subject, out) ==
    IF out = None THEN Raise("NoResultsError", "", <<>>)
    ELSE Ok(State(subject.api, out, subject.subshells), <<>>)

ss_open(subject, query) ==
    IF Falsy(query) THEN Opened(subject, Me)
    ELSE IF query.kind = "mob" THEN Opened(subject, query.mob)
    ELSE Opened(subject, Search(query.text))

\* ss_play after to_play = ss_open(subject, query): the subject is returned
Played(subject, to_play) == IF to_play.ok THEN Ok(subject, <<>>) ELSE to_play

ss_play(subject, query) ==
    Played(subject,
           ss_open(subject, IF Falsy(query) THEN MobQuery(subject.mob) ELSE query))

\* the result r of a call, with the calls made before it put first
After(log, r) == [r EXCEPT !.log = log \o @]

\* sentence(state, query) for a registered sentence, with the call recorded
CallSentence(id, subject, query) ==
    After(<<[id |-> id, subject |-> subject, query |-> query]>>,
          IF id = "ss_open" THEN ss_open(subject, query)
          ELSE ss_play(subject, query))

\* the builtins of shell() that the vocabulary can name
Builtins == [n \in {"open", "get", "play"} |->
                IF n = "play" THEN "ss_play" ELSE "ss_open"]

\* the **extensions the session is started with: one sentence, registered
\* under the name of a control word
Extensions == [n \in {"track"} |-> "ss_play"]

\* {**builtins, **extensions}
Registry(extensions) ==
    [n \in DOMAIN Builtins \cup DOMAIN extensions |->
        IF n \in DOMAIN extensions THEN extensions[n] ELSE Builtins[n]]

-----------------------------------------------------------------------------
(* Sentence values the interpreter builds *)

Registered(id) == [f |-> "sentence", id |-> id]
Lambda(st) == [f |-> "lambda", st |-> st]

\* _identity_state, had it returned a fresh State
_identity_state_Resets == [f |-> "lambda", st |-> State("api", Me, NoSubshells)]

_identity_state == [f |-> "identity"]

_set_subshell(subsh_name, subsh_state) ==
    [f |-> "set_subshell", name |-> subsh_name, st |-> subsh_state]

\* set_subshell, had it taken the focus of the stored State
set_subshell_TakesFocus(subsh_name, subsh_state, subject) ==
    State(subject.api, subsh_state.mob,
          [k \in DOMAIN subject.subshells \cup {subsh_name} |->
              IF k = subsh_name THEN subsh_state ELSE subject.subshells[k]])

\* set_subshell, had it kept the new entry alone
set_subshell_DropsOthers(subsh_name, subsh_state, subject) ==
    State(subject.api, subject.mob, [k \in {subsh_name} |-> subsh_state])

\* set_subshell, had it stored the State without its own Scope Store
set_subshell_Flat(subsh_name, subsh_state, subject) ==
    State(subject.api, subject.mob,
          [k \in DOMAIN subject.subshells \cup {subsh_name} |->
              IF k = subsh_name
              THEN State(subsh_state.api, subsh_state.mob, NoSubshells)
              ELSE subject.subshells[k]])

\* the body of the set_subshell closure
set_subshell(subsh_name, subsh_state, subject) ==
    State(subject.api, subject.mob,
          [k \in (DOMAIN subject.subshells \ {subsh_name}) \cup {subsh_name} |->
              IF k = subsh_name THEN subsh_state ELSE subject.subshells[k]])

\* sentence(state, query) for any Sentence value
Apply(sentence, subject, query) ==
    CASE sentence.f = "identity" -> Ok(subject, <<>>)
      [] sentence.f = "lambda" -> Ok(sentence.st, <<>>)
      [] sentence.f = "set_subshell" ->
            Ok(set_subshell(sentence.name, sentence.st, subject), <<>>)
      [] sentence.f = "sentence" -> CallSentence(sentence.id, subject, query)

\* sentence(subject, query) for the pair r that process_line returned
ApplyPair(r, subject) ==
    IF ~r.ok THEN r
    ELSE After(r.log, Apply(r.val.sentence, subject, r.val.query))

\* the pair (sentence, query), returned after the calls of `log`
Pair(sentence, query, log) == Ok([sentence |-> sentence, query |-> query], log)

-----------------------------------------------------------------------------
(* Subject reference: _process_line_track *)

IntTokens == {"-1", "0", "1", "2", "3", "4"}

\* int(track_num)
ParseInt(tok) ==
    CASE tok = "-1" -> -1 [] tok = "0" -> 0 [] tok = "1" -> 1
      [] tok = "2" -> 2 [] tok = "3" -> 3 [] tok = "4" -> 4

\* f"{track_num}" of an int
IntStr(n) == CHOOSE tok \in IntTokens : ParseInt(tok) = n

RECURSIVE Flatten(_)
Flatten(pages) ==
    IF pages = <<>> THEN <<>> ELSE Head(pages) \o Flatten(Tail(pages))

\* every item results_generator yields for the Mob's track listing
AllTracks(mob) == PageZero(mob) \o Flatten(NextPages(mob))

\* page["next"] of the page before the j-th of NextPages
NextUrl(mob, j) == mob \o "/tracks?page=" \o IntStr(j)

\* requests.get(nexturl) of results_generator, as an entry of the log
Fetch(st, j) ==
    [id |-> "requests.get", subject |-> st, query |-> Text(NextUrl(st.mob, j))]

\* how many pages results_generator has requested when it is resumed until
\* it has yielded item n, or until it is exhausted (always, for n < 1); j
\* pages are requested and `have` items yielded so far
RECURSIVE PagesFetched(_, _, _, _)
PagesFetched(mob, n, j, have) ==
    IF (1 <= n /\ n <= have) \/ j = Len(NextPages(mob)) THEN j
    ELSE PagesFetched(mob, n, j + 1, have + Len(NextPages(mob)[j + 1]))

\* the requests of the first k pages, in order
FetchLog(st, k) == [j \in 1..k |-> Fetch(st, j)]

\* the tracks iter_mob_track yields for a Mob
iter_mob_track(mob) == AllTracks(mob)

\* the positions in `all` of the tracks whose lower-cased name is track_nom
Hits(all, track_nom) == {i \in 1..Len(all) : LowerName(all[i]) = track_nom}

\* next(...) over the matching tracks: the first, or ValueError
FirstHit(all, hits, track_nom) ==
    IF hits = {} THEN Raise("ValueError", MsgTrackNotFound(track_nom), <<>>)
    ELSE Ok(MobQuery(all[CHOOSE i \in hits : \A j \in hits : i <= j]), <<>>)

\* the page requests iter_mob_track makes while next(...) draws from it: up
\* to the page of the first hit, every page when there is none
iter_mob_track_requests(st, hits) ==
    FetchLog(st, PagesFetched(st.mob,
                              IF hits = {} THEN 0
                              ELSE CHOOSE i \in hits : \A j \in hits : i <= j,
                              0, Len(PageZero(st.mob))))

\* the first track whose lower-cased name is track_nom
TrackByName(st, track_nom) ==
    After(iter_mob_track_requests(st, Hits(iter_mob_track(st.mob), track_nom)),
          FirstHit(iter_mob_track(st.mob), Hits(iter_mob_track(st.mob), track_nom),
                   track_nom))

\* items[i] with Python's negative indices, for an index in range
Item(items, i) == items[(IF i < 0 THEN Len(items) + i ELSE i) + 1]

\* `except IndexError` when the generator is exhausted before item n: the
\* handler ends without a return and the name lookup below the try runs
TrackExhausted(st, n, rest) ==
    TrackByName(st, IntStr(n) \o " " \o JoinLower(rest))

\* `except IndexError` of _process_line_track: item n of results_generator
TrackIndexError(st, n, rest) ==
    After(FetchLog(st, PagesFetched(st.mob, n, 0, Len(PageZero(st.mob)))),
          IF 1 <= n /\ n <= Len(AllTracks(st.mob))
          THEN Ok(MobQuery(AllTracks(st.mob)[n]), <<>>)
          ELSE TrackExhausted(st, n, rest))

\* the try block of _process_line_track for track_num = int n
TrackByNumber(st, n, rest) ==
    IF ~HasTracks(st.mob) THEN Raise("ValueError", MsgNoTracks(st.mob), <<>>)
    ELSE IF -Len(PageZero(st.mob)) <= n - 1 /\ n - 1 < Len(PageZero(st.mob))
    THEN Ok(MobQuery(Item(PageZero(st.mob), n - 1)), <<>>)
    ELSE TrackIndexError(st, n, rest)

_process_line_track(st, tokens) ==
    IF tokens = <<>> THEN Raise("StopIteration", "", <<>>)
    ELSE IF Head(tokens) \in IntTokens
    THEN TrackByNumber(st, ParseInt(Head(tokens)), Tail(tokens))
    ELSE IF Head(tokens) = "nom"
    THEN TrackByName(st, Join(Tail(tokens)))
    ELSE TrackByName(st, Lower(Head(tokens)) \o " " \o JoinLower(Tail(tokens)))

\* TrackLoad, had the new State been built without the Scope Store
TrackLoad_DropsStore(st, mob) ==
    IF ~mob.ok THEN mob
    ELSE Pair(Lambda(State(st.api, mob.val.mob, NoSubshells)), Text(""), mob.log)

\* _process_line_track_load after mob = _process_line_track(...)
TrackLoad(st, mob) ==
    IF ~mob.ok THEN mob
    ELSE Pair(Lambda(State(st.api, mob.val.mob, st.subshells)), Text(""), mob.log)

_process_line_track_load(st, tokens) == TrackLoad(st, _process_line_track(st, tokens))

\* _process_line_nom, had the peeked `nom` been left in the parameter
_process_line_nom_KeepsNom(tokens) == Ok(Text(Join(<<"nom">> \o tokens)), <<>>)

_process_line_nom(tokens) == Ok(Text(Join(tokens)), <<>>)

-----------------------------------------------------------------------------
(* The line interpreter: process_line *)

\* next(tokens, None)
Next_(tokens) == IF tokens = <<>> THEN None ELSE Head(tokens)

\* the cursor after next(tokens, None)
Rest(tokens) == IF tokens = <<>> THEN <<>> ELSE Tail(tokens)

\* Dispatch, had the registry been looked up before reserved_control
Dispatch_RegistryFirst(token, st, sents) ==
    IF token # None /\ token \in DOMAIN sents THEN "sentence"
    ELSE IF token = None \/ token \in ControlWords THEN "reserved_control"
    ELSE IF token \in DOMAIN st.subshells THEN "subshell"
    ELSE "make_subsh"

\* Dispatch, had reserved_control had no entry for 'nom'
Dispatch_NoNom(token, st, sents) ==
    IF token = None \/ token \in ControlWords \ {"nom"} THEN "reserved_control"
    ELSE IF token \in DOMAIN sents THEN "sentence"
    ELSE IF token \in DOMAIN st.subshells THEN "subshell"
    ELSE "make_subsh"

\* which of the four lookups of process_line takes the first token
Dispatch(token, st, sents) ==
    IF token = None \/ token \in ControlWords THEN "reserved_control"
    ELSE IF token \in DOMAIN sents THEN "sentence"
    ELSE IF token \in DOMAIN st.subshells THEN "subshell"
    ELSE "make_subsh"

\* InInterpretAgainst, had the rest been interpreted against the subshell
InInterpretAgainst_Subshell(st, subsh) ==
    IF subsh \in DOMAIN st.subshells THEN st.subshells[subsh] ELSE st

\* the State that `in subsh ...` interprets the rest of the line against
InInterpretAgainst(st, subsh) == st

\* InSubject, had the sentence been applied to the main State
InSubject_Main(st, subsh) == st

\* the State that `in subsh ...` applies the interpreted sentence to
InSubject(st, subsh) == st.subshells[subsh]

\* branch_control, had it had no entry for 'in'
branch_control_NoIn(branch_token) ==
    IF branch_token \in {"after", "track", "nom"} THEN branch_token ELSE None

\* branch_control.get(branch_token)
branch_control(branch_token) ==
    IF branch_token \in {"in", "after", "track", "nom"} THEN branch_token ELSE None

\* MakeSubshSubject, had the new subshell not inherited the Scope Store
MakeSubshSubject_NoInherit(st) == State(st.api, st.mob, NoSubshells)

\* the State that a new subshell's line is applied to
MakeSubshSubject(st) == st

\* TokensT, had the peek consumed the token (no tee)
TokensT_Consumed(tokens) == IF tokens = <<>> THEN <<>> ELSE Tail(tokens)

\* what " ".join(tokens_t) sees after the one-token peek through tee
TokensT(tokens) == tokens

RECURSIVE process_line(_, _, _)
RECURSIVE _process_line_in(_, _, _)
RECURSIVE _process_line_after(_, _, _)
RECURSIVE _process_line_make_subsh(_, _, _, _)

\* the Query of the sentence branch: control(state, tokens, sentences) for
\* the peeked branch token, else the joined tokens_t; `tokens` is the cursor
\* before the peek
BranchQuery(control, st, tokens, sents) ==
    CASE control = "in" -> Raise("ValueError", MSG_IN_PARAM, <<>>)
      [] control = "after" -> _process_line_after(st, Rest(tokens), sents)
      [] control = "track" -> _process_line_track(st, Rest(tokens))
      [] control = "nom" -> _process_line_nom(Rest(tokens))
      [] OTHER -> Ok(Text(Join(TokensT(tokens))), <<>>)

\* (sentence, query) for the Query the branch produced
WithSentence(id, query) ==
    IF ~query.ok THEN query ELSE Pair(Registered(id), query.val, query.log)

\* the sentence branch: sentences.get(token) found `id`
ProcessSentence(id, st, tokens, sents) ==
    WithSentence(id, BranchQuery(branch_control(Next_(tokens)), st, tokens, sents))

\* ProcessLoad, had it returned the identity instead of the stored State
ProcessLoad_NoLoad(subsh_name, substate, tokens) ==
    IF Next_(tokens) # None /\ Next_(tokens) # ""
    THEN Raise("ValueError", MsgLoadParam(subsh_name), <<>>)
    ELSE Pair(_identity_state, Text(""), <<>>)

\* ProcessLoad, had it not looked at the token after the subshell name
ProcessLoad_IgnoresParam(subsh_name, substate, tokens) ==
    Pair(Lambda(substate), Text(""), <<>>)

\* the subshell branch: state.subshells.get(token) found `substate`
ProcessLoad(subsh_name, substate, tokens) ==
    IF Next_(tokens) # None /\ Next_(tokens) # ""
    THEN Raise("ValueError", MsgLoadParam(subsh_name), <<>>)
    ELSE Pair(Lambda(substate), Text(""), <<>>)

\* the reserved_control branch for the first token
ProcessControl(token, st, rest, sents) ==
    CASE token = "in" -> _process_line_in(st, rest, sents)
      [] token = "after" -> process_line(st, rest, sents)
      [] token = "track" -> _process_line_track_load(st, rest)
      [] OTHER -> Pair(_identity_state, MobQuery(EmptyMob), <<>>)

\* process_line once the first token is dispatched to `branch`
ProcessBranch(branch, token, st, rest, sents) ==
    CASE branch = "reserved_control" -> ProcessControl(token, st, rest, sents)
      [] branch = "sentence" -> ProcessSentence(sents[token], st, rest, sents)
      [] branch = "subshell" -> ProcessLoad(token, st.subshells[token], rest)
      [] branch = "make_subsh" -> _process_line_make_subsh(st, rest, sents, token)

process_line(st, tokens, sents) ==
    ProcessBranch(Dispatch(Next_(tokens), st, sents), Next_(tokens), st,
                  Rest(tokens), sents)

\* (_set_subshell(name, applied state), Mob({})) for the applied result a
SetSubshellOf(subsh_name, a) ==
    IF ~a.ok THEN a
    ELSE Pair(_set_subshell(subsh_name, a.val), MobQuery(EmptyMob), a.log)

_process_line_make_subsh(st, tokens, sents, new_subshell) ==
    SetSubshellOf(new_subshell,
                  ApplyPair(process_line(st, tokens, sents), MakeSubshSubject(st)))

\* `except KeyError` of _process_line_in
InvalidIfKeyError(r) ==
    IF ~r.ok /\ r.err.type = "KeyError"
    THEN Raise("ValueError", MSG_IN_INVALID, r.log)
    ELSE r

\* the second try block of _process_line_in, after r = process_line(...)
InApply(st, subsh, r) ==
    IF ~r.ok THEN InvalidIfKeyError(r)
    ELSE IF subsh \notin DOMAIN st.subshells
    THEN Raise("ValueError", MSG_IN_INVALID, r.log)
    ELSE InvalidIfKeyError(SetSubshellOf(subsh, ApplyPair(r, InSubject(st, subsh))))

_process_line_in(st, tokens, sents) ==
    IF tokens = <<>> THEN Raise("ValueError", MSG_IN_MISSING, <<>>)
    ELSE InApply(st, Head(tokens),
                 process_line(InInterpretAgainst(st, Head(tokens)), Tail(tokens),
                              sents))

\* the recursive call a call of process_line makes: none, or one on the
\* cursor `cursor` (always with the same State and registry)
NoCall == [called |-> FALSE, cursor |-> <<>>]
Call(cursor) == [called |-> TRUE, cursor |-> cursor]

\* RecursionOf, had a scope definition interpreted its whole line again
RecursionOf_WholeLine(branch, token, rest) ==
    CASE branch = "reserved_control" /\ token = "in" /\ rest # <<>> ->
            Call(Tail(rest))
      [] branch = "reserved_control" /\ token = "after" -> Call(rest)
      [] branch = "sentence" /\ branch_control(Next_(rest)) = "after" ->
            Call(Rest(rest))
      [] branch = "make_subsh" -> Call(<<token>> \o rest)
      [] OTHER -> NoCall

\* the recursive call of process_line once the first token is dispatched to
\* `branch`: by _process_line_in after next(tokens), by the entry `after`
\* of reserved_control, by _process_line_after behind a sentence (the peek
\* through tee has advanced the cursor), by _process_line_make_subsh
RecursionOf(branch, token, rest) ==
    CASE branch = "reserved_control" /\ token = "in" /\ rest # <<>> ->
            Call(Tail(rest))
      [] branch = "reserved_control" /\ token = "after" -> Call(rest)
      [] branch = "sentence" /\ branch_control(Next_(rest)) = "after" ->
            Call(Rest(rest))
      [] branch = "make_subsh" -> Call(rest)
      [] OTHER -> NoCall

Recursion(st, tokens, sents) ==
    RecursionOf(Dispatch(Next_(tokens), st, sents), Next_(tokens), Rest(tokens))

\* the cursors of the nested calls of process_line, the outermost first, as
\* far as `fuel` calls
RECURSIVE Descent(_, _, _, _)
Descent(st, tokens, sents, fuel) ==
    IF fuel = 0 \/ ~Recursion(st, tokens, sents).called THEN <<tokens>>
    ELSE <<tokens>> \o Descent(st, Recursion(st, tokens, sents).cursor, sents,
                               fuel - 1)

\* subject(state, query).mob for the applied result a
MobOf(a) == IF ~a.ok THEN a ELSE Ok(MobQuery(a.val.mob), a.log)

\* _process_line_after, had it returned the focus of the current State
_process_line_after_KeepsFocus(st, tokens, sents) == Ok(MobQuery(st.mob), <<>>)

_process_line_after(st, tokens, sents) ==
    MobOf(ApplyPair(process_line(st, tokens, sents), st))

-----------------------------------------------------------------------------
(* The boundary scanner: parse_input of src/sh.py *)

SPACE == " "
SQUOT == "'"
DQUOT == "\""
ESCAP == "\\"
NULL == ""

\* the characters of the string SPEC
SPEC == {SQUOT, DQUOT, ESCAP, SPACE}

\* the characters a raw line is made of: the special ones and an ordinary one
Chars == SPEC \cup {"a"}

RECURSIVE RawUpTo(_)
RawUpTo(n) ==
    IF n = 0 THEN {<<>>}
    ELSE LET shorter == RawUpTo(n - 1)
         IN  shorter \cup {Append(r, c) : r \in {t \in shorter : Len(t) = n - 1},
                                          c \in Chars}

\* the lines of the worked examples: a b c, a\ b (an escaped space),
\* open "love me" track, and open "love (an unbalanced quote)
RAW_A_B_C ==
    <<"a", " ", "b", " ", "c">>
RAW_ESCAPED_SPACE ==
    <<"a", "\\", " ", "b">>
RAW_LOVE_ME ==
    <<"o", "p", "e", "n", " ", "\"", "l", "o", "v", "e", " ", "m", "e",
    "\"", " ", "t", "r", "a", "c", "k">>
RAW_UNBALANCED ==
    <<"o", "p", "e", "n", " ", "\"", "l", "o", "v", "e">>
\* a, backslash, backslash, b (an escaped escape marker)
RAW_ESCAPED_ESCAPE ==
    <<"a", "\\", "\\", "b">>

RawExamples ==
    { RAW_A_B_C, RAW_ESCAPED_SPACE, RAW_LOVE_ME, RAW_UNBALANCED,
      RAW_ESCAPED_ESCAPE }

RawLines == RawUpTo(MaxRaw) \cup RawExamples

\* `char in chars` for a char of at most one character and the string of the
\* characters `chars`: the empty string is in every string
In(char, chars) == char = NULL \/ char \in chars

\* the flag None
NoFlag == <<>>

\* the closures the mode functions are: flagger(start, end), escaper(mode),
\* watchdog(flag_char, watch_chars)
flagger(start, end) == [m |-> "flag", start |-> start, end |-> end]
escaper_ToDefault(md) ==
    [m |-> "escape",
     mode |-> [m |-> "watch", flag_char |-> SPACE, watch_chars |-> {SQUOT, DQUOT}]]
escaper(md) == [m |-> "escape", mode |-> md]
watchdog(flag_char, watch_chars) ==
    [m |-> "watch", flag_char |-> flag_char, watch_chars |-> watch_chars]

default == watchdog(SPACE, {SQUOT, DQUOT})

\* watch_x, had a quoted region kept watching for quote characters
watch_x_Nested(w, char, index) ==
    IF char = w.flag_char THEN [flag |-> NoFlag, mode |-> flagger(index, index + 1)]
    ELSE IF char = ESCAP THEN [flag |-> NoFlag, mode |-> escaper(w)]
    ELSE IF In(char, {SQUOT, DQUOT}) THEN [flag |-> NoFlag, mode |-> watchdog(char, {})]
    ELSE [flag |-> NoFlag, mode |-> w]

\* watch_x(char, index) of the watchdog w
watch_x(w, char, index) ==
    IF char = w.flag_char THEN [flag |-> NoFlag, mode |-> flagger(index, index + 1)]
    ELSE IF char = ESCAP THEN [flag |-> NoFlag, mode |-> escaper(w)]
    ELSE IF In(char, w.watch_chars) THEN [flag |-> NoFlag, mode |-> watchdog(char, {})]
    ELSE [flag |-> NoFlag, mode |-> w]

\* flag(char, index) of the flagger f
flag(f, char, index) ==
    IF char = SPACE THEN [flag |-> NoFlag, mode |-> flagger(f.start, f.end + 1)]
    ELSE IF In(char, {SQUOT, DQUOT, ESCAP})
    THEN [flag |-> <<f.start, f.end + 1>>, mode |-> watch_x(default, char, index).mode]
    ELSE [flag |-> <<f.start, f.end>>, mode |-> default]

\* mode(char, index)
CallMode(md, char, index) ==
    CASE md.m = "watch" -> watch_x(md, char, index)
      [] md.m = "flag" -> flag(md, char, index)
      [] md.m = "escape" -> [flag |-> NoFlag, mode |-> md.mode]

\* `if flag: flags.append(flag)`: None is falsy, a list of two is not
Appended(fl, fs) == IF fl = NoFlag THEN fs ELSE Append(fs, fl)

\* the second loop of parse_input: the index of the first character that is
\* not in SPEC, 0 if there is none
FirstOrdinary(raw) ==
    IF \E k \in 1..Len(raw) : raw[k] \notin SPEC
    THEN (CHOOSE k \in 1..Len(raw) :
            /\ raw[k] \notin SPEC
            /\ \A j \in 1..(k - 1) : raw[j] \in SPEC) - 1
    ELSE 0

\* Python values of the last statement: a list, and the itertools.chain that
\* flatten returns
PyList(items) == [type |-> "list", items |-> items]
PyChain(items) == [type |-> "chain", items |-> items]

RECURSIVE Chained(_)
Chained(lists) ==
    IF lists = <<>> THEN <<>> ELSE Head(lists) \o Chained(Tail(lists))

\* chain.from_iterable(list_of_lists)
flatten(list_of_lists) == PyChain(Chained(list_of_lists))

\* a + b for the result a of the left operand: list.__add__ takes a list
\* only, and a chain has no __radd__
Plus(a, b) ==
    IF ~a.ok THEN a
    ELSE IF a.val.type = "list" /\ b.type = "list"
    THEN Ok(PyList(a.val.items \o b.items), <<>>)
    ELSE Raise("TypeError", "can only concatenate list to list", <<>>)

\* rawin[start:stop] for 0 <= start, stop
Slice(raw, start, stop) ==
    SubSeq(raw, start + 1, IF stop > Len(raw) THEN Len(raw) ELSE stop)

\* rawin[start:None]
SliceToEnd(raw, start) == SubSeq(raw, start + 1, Len(raw))

\* string.replace(ESCAP, NULL)
remove_escapes(string) == SelectSeq(string, LAMBDA c : c # ESCAP)

\* the tokens of the last loop: grouper(bounds, 2) pairs the numbers, the
\* last pair is filled with None
RECURSIVE Grouped(_, _)
Grouped(raw, bounds) ==
    IF bounds = <<>> THEN <<>>
    ELSE IF Len(bounds) = 1
    THEN << remove_escapes(SliceToEnd(raw, bounds[1])) >>
    ELSE << remove_escapes(Slice(raw, bounds[1], bounds[2])) >>
            \o Grouped(raw, Tail(Tail(bounds)))

\* [start] + flatten(flags) + [len(rawin)]
Bounds(raw, fs) ==
    Plus(Plus(Ok(PyList(<<FirstOrdinary(raw)>>), <<>>), flatten(fs)),
         PyList(<<Len(raw)>>))

\* the flags parse_input has collected after its last call of mode, when
\* its first loop is at position k in mode md with the flags fs
RECURSIVE FlagsFrom(_, _, _, _)
FlagsFrom(raw, k, md, fs) ==
    IF k = Len(raw) THEN Appended(CallMode(md, NULL, Len(raw)).flag, fs)
    ELSE FlagsFrom(raw, k + 1, CallMode(md, raw[k + 1], k).mode,
                   Appended(CallMode(md, raw[k + 1], k).flag, fs))

\* what drawing every token from the generator gives for the bounds b
Drawn(raw, b) == IF b.ok THEN Ok(Grouped(raw, b.val.items), <<>>) ELSE b

\* list(parse_input(rawin))
parse_input(raw) == Drawn(raw, Bounds(raw, FlagsFrom(raw, 0, default, <<>>)))

ScanInit ==
    /\ rawin = <<>>
    /\ mode = default
    /\ flags = <<>>
    /\ pos = 0
    /\ yielded = <<>>
    /\ spc = "input"

\* parse_input(rawin) is called and its generator started
Input(raw) ==
    /\ spc = "input"
    /\ rawin' = raw
    /\ mode' = default
    /\ flags' = <<>>
    /\ pos' = 0
    /\ yielded' = <<>>
    /\ spc' = "scan"
    /\ UNCHANGED sessionvars

\* one pass of the first loop: flag, mode = mode(rawin[i], i)
ScanChar ==
    /\ spc = "scan" /\ pos < Len(rawin)
    /\ \E r \in {CallMode(mode, rawin[pos + 1], pos)} :
          /\ flags' = Appended(r.flag, flags)
          /\ mode' = r.mode
    /\ pos' = pos + 1
    /\ UNCHANGED <<rawin, yielded, spc>>
    /\ UNCHANGED sessionvars

\* after the loop: flag := mode('', len(rawin))[0]
ScanLast ==
    /\ spc = "scan" /\ pos = Len(rawin)
    /\ flags' = Appended(CallMode(mode, NULL, Len(rawin)).flag, flags)
    /\ spc' = "slice"
    /\ UNCHANGED <<rawin, mode, pos, yielded>>
    /\ UNCHANGED sessionvars

\* the second loop and the last: the bounds are put together and the slices
\* between them yielded
Yield ==
    /\ spc = "slice"
    /\ \E b \in {Bounds(rawin, flags)} :
          IF b.ok
          THEN yielded' = Grouped(rawin, b.val.items) /\ spc' = "yielded"
          ELSE yielded' = <<>> /\ spc' = "raised"
    /\ UNCHANGED <<rawin, mode, flags, pos>>
    /\ UNCHANGED sessionvars

\* prompt is called again
Prompt ==
    /\ spc \in {"yielded", "raised"}
    /\ spc' = "input"
    /\ UNCHANGED <<rawin, mode, flags, pos, yielded>>
    /\ UNCHANGED sessionvars

NextScan ==
    \/ \E raw \in RawLines : Input(raw)
    \/ ScanChar
    \/ ScanLast
    \/ Yield
    \/ Prompt

-----------------------------------------------------------------------------
(* The session loop: shell *)

\* the Spotify object that the n-th call of login() makes
Api(n) == <<"api", "api2", "api3", "api4">>[n]

\* what the n-th call of login() returns
Session(n) == State(Api(n), Me, NoSubshells)

login == Session(1)

NoOutcome == [ok |-> TRUE, type |-> "", msg |-> "", printed |-> ""]

\* a shell that applies the sentence of `op after L` to the State L gave
RunLine_CarriesStore(st, tokens, sents) ==
    IF /\ Len(tokens) >= 3 /\ tokens[2] = "after"
       /\ tokens[1] \notin ControlWords /\ tokens[1] \in DOMAIN sents
       /\ ApplyPair(process_line(st, SubSeq(tokens, 3, Len(tokens)), sents), st).ok
    THEN ApplyPair(process_line(st, tokens, sents),
                   ApplyPair(process_line(st, SubSeq(tokens, 3, Len(tokens)),
                                          sents), st).val)
    ELSE ApplyPair(process_line(st, tokens, sents), st)

\* the try block of shell: interpret the line, then apply the sentence
RunLine(st, tokens, sents) == ApplyPair(process_line(st, tokens, sents), st)

\* isinstance(err, class): NoResultsError is a subclass of ValueError
IsA(type, class) ==
    \/ type = class
    \/ type = "NoResultsError" /\ class = "ValueError"

MSG_NO_RESULTS == "    No Results"
MSG_SPOTIFY == "    ERROR: The Spotify operation failed"
MSG_RECONNECT == "    ERROR: Connection was lost. Reconnecting..."

\* Report, had the clause for ValueError come first
Report_GenericFirst(err) ==
    IF IsA(err.type, "ValueError") THEN "    ERROR: " \o err.msg
    ELSE IF IsA(err.type, "NoResultsError") THEN MSG_NO_RESULTS
    ELSE IF IsA(err.type, "SpotifyException") THEN MSG_SPOTIFY
    ELSE IF IsA(err.type, "ConnectionError") \/ IsA(err.type, "ReadTimeout")
    THEN MSG_RECONNECT
    ELSE ""

\* the except clauses of shell, tried in the order they are written: what
\* is printed for the exception, "" when no clause matches
Report(err) ==
    IF IsA(err.type, "NoResultsError") THEN MSG_NO_RESULTS
    ELSE IF IsA(err.type, "SpotifyException") THEN MSG_SPOTIFY
    ELSE IF IsA(err.type, "ValueError") THEN "    ERROR: " \o err.msg
    ELSE IF IsA(err.type, "ConnectionError") \/ IsA(err.type, "ReadTimeout")
    THEN MSG_RECONNECT
    ELSE ""

\* the exception is one of those the except clauses of shell name
Caught(err) ==
    \E class \in {"NoResultsError", "SpotifyException", "ValueError",
                   "ConnectionError", "ReadTimeout"} : IsA(err.type, class)

Init ==
    /\ sentences = Registry(Extensions)
    /\ state = login
    /\ status = IDLE
    /\ pc = "prompt"
    /\ line = <<>>
    /\ prev = login
    /\ outcome = NoOutcome
    /\ invoked = <<>>
    /\ fetched = <<>>
    /\ typed = <<>>
    /\ logins = 1
    /\ revoked = {}
    /\ idiom = [step |-> 0, main |-> login]
    /\ ScanInit

\* the sentence calls among the entries of a log
IsCall(e) == e.id # "requests.get"
Calls(log) == SelectSeq(log, IsCall)

\* the page requests among the entries of a log
IsFetch(e) == e.id = "requests.get"
Fetches(log) == SelectSeq(log, IsFetch)

\* StateAfter, had an error handler started the session over
StateAfter_Relogin(st, r) == IF r.ok THEN r.val ELSE login

\* `state = sentence(state, query)` in the try block of shell: the State is
\* assigned when the call returns, and no except clause assigns it
StateAfter(st, r) == IF r.ok THEN r.val ELSE st

\* the line is handled with result r of the try block; a State of more
\* than `most` entries is beyond the bound
HandleWithin(tokens, r, most) ==
    /\ r.ok => Size(r.val) <= most
    /\ line' = tokens
    /\ prev' = state
    /\ status' = WORK
    /\ invoked' = Calls(r.log)
    /\ fetched' = Fetches(r.log)
    /\ state' = StateAfter(state, r)
    /\ IF r.ok
       THEN /\ outcome' = NoOutcome
            /\ pc' = "done"
       ELSE /\ outcome' = [ok |-> FALSE, type |-> r.err.type, msg |-> r.err.msg,
                            printed |-> Report(r.err)]
            /\ pc' = IF Caught(r.err) THEN "done" ELSE "crashed"

Handle(tokens, r) == HandleWithin(tokens, r, MaxSize)

\* input() returns a line other than exit and logout; the line is handled
ReadLine(tokens) ==
    /\ pc = "prompt"
    /\ \E r \in {RunLine(state, tokens, sentences)} : Handle(tokens, r)
    /\ UNCHANGED <<sentences, loopvars, scanvars>>

\* status = IDLE, and back to the prompt
Idle ==
    /\ pc = "done"
    /\ pc' = "prompt"
    /\ status' = IDLE
    /\ line' = <<>>
    /\ prev' = state
    /\ outcome' = NoOutcome
    /\ invoked' = <<>>
    /\ fetched' = <<>>
    /\ UNCHANGED <<sentences, state, loopvars, scanvars>>

\* input() returns "exit"
Exit ==
    /\ pc = "prompt"
    /\ pc' = "exited"
    /\ status' = SAFE
    /\ UNCHANGED <<sentences, state, line, prev, outcome, invoked, fetched>>
    /\ UNCHANGED <<loopvars, scanvars>>

Next ==
    \/ \E tokens \in Lines : ReadLine(tokens)
    \/ Idle
    \/ Exit

Spec == Init /\ [][Next]_vars

\* the scanner alone, called on one raw line after another
ScanSpec == Init /\ [][NextScan]_vars

-----------------------------------------------------------------------------
(* The session loop over raw lines: src/streamsort/_sh.py, shell *)

\* lines that input() may return: the reserved ones, the three lines of the
\* idiom of the module docstring and the definition before them, a quoted
\* and an escaped parameter, and a line that ends the loop with an
\* uncaught exception
LINE_EXIT ==
    <<"e", "x", "i", "t">>
LINE_LOGOUT ==
    <<"l", "o", "g", "o", "u", "t">>
LINE_LOGOUT_NOW ==
    <<"l", "o", "g", "o", "u", "t", " ", "n", "o", "w">>
LINE_OPEN ==
    <<"o", "p", "e", "n", " ", "X">>
LINE_DEFINE ==
    <<"s", "u", "b", "s", "h", " ", "o", "p", "e", "n", " ", "X">>
LINE_SAVE ==
    <<"i", "n", " ", "s", "u", "b", "s", "h", " ", "b", "a", "c", "k", "t",
    "o", "m", "a", "i", "n">>
LINE_SUBSH ==
    <<"s", "u", "b", "s", "h">>
LINE_BACKTOMAIN ==
    <<"b", "a", "c", "k", "t", "o", "m", "a", "i", "n">>
LINE_QUOTED ==
    <<"o", "p", "e", "n", " ", "\"", "X", " ", "X", "\"">>
LINE_ESCAPED ==
    <<"o", "p", "e", "n", " ", "X", "\\", " ", "X">>
LINE_TRACK ==
    <<"t", "r", "a", "c", "k">>
LINE_IN_OPEN ==
    <<"i", "n", " ", "s", "u", "b", "s", "h", " ", "o", "p", "e", "n", " ",
    "X">>

TypedLines ==
    { LINE_EXIT, LINE_LOGOUT, LINE_LOGOUT_NOW, LINE_OPEN, LINE_DEFINE,
      LINE_SAVE, LINE_SUBSH, LINE_BACKTOMAIN, LINE_QUOTED, LINE_ESCAPED,
      LINE_TRACK, LINE_IN_OPEN, <<>> }

\* the str of a sequence of characters
RECURSIVE Str(_)
Str(chars) == IF chars = <<>> THEN "" ELSE Head(chars) \o Str(Tail(chars))

\* str.split() without arguments: the runs of characters between runs of
\* whitespace, no empty string among them; word is the run being read
RECURSIVE split(_, _)
split(raw, word) ==
    IF raw = <<>> THEN (IF word = <<>> THEN <<>> ELSE <<Str(word)>>)
    ELSE IF Head(raw) = SPACE
    THEN (IF word = <<>> THEN <<>> ELSE <<Str(word)>>) \o split(Tail(raw), <<>>)
    ELSE split(Tail(raw), Append(word, Head(raw)))

\* line[:6] == "logout"
IsLogout(raw) == Slice(raw, 0, 6) = LINE_LOGOUT

\* StateAfterLogout, had the branch kept the State whatever logout() returns
StateAfterLogout_Keeps(st, removed, n) == st

\* what `state` is bound to after the logout branch: logout() is falsy when
\* the cache was removed, and then login() is called for the n-th time
StateAfterLogout(st, removed, n) == IF removed THEN Session(n) ELSE st

\* the idiom of the module docstring, followed line by line: `in subsh
\* backtomain` in a State with a scope subsh and without a scope backtomain,
\* then `subsh`, then `backtomain`
Followed(i, raw, st) ==
    IF /\ raw = LINE_SAVE
       /\ "subsh" \in DOMAIN st.subshells
       /\ "backtomain" \notin DOMAIN st.subshells
    THEN [step |-> 1, main |-> st]
    ELSE IF i.step = 1 /\ raw = LINE_SUBSH THEN [i EXCEPT !.step = 2]
    ELSE IF i.step = 2 /\ raw = LINE_BACKTOMAIN THEN [i EXCEPT !.step = 3]
    ELSE [step |-> 0, main |-> login]

\* input() returns a line other than exit and logout...: its tokens are
\* line.split(), and the line is handled
TypeLine(raw) ==
    /\ pc = "prompt"
    /\ raw # LINE_EXIT /\ ~IsLogout(raw)
    /\ \E tokens \in {split(raw, <<>>)} :
          \E r \in {RunLine(state, tokens, sentences)} :
             HandleWithin(tokens, r, MaxStore)
    /\ typed' = raw
    /\ idiom' = Followed(idiom, raw, state)
    /\ UNCHANGED <<sentences, logins, revoked, scanvars>>

\* the calls of a line that go to the service: a page request, a search or
\* a lookup of the user by ss_open, a playback
Contacts(e) ==
    \/ IsFetch(e)
    \/ e.id = "ss_play"
    \/ Falsy(e.query)
    \/ e.query.kind = "text"

\* the exceptions of the collaborator: of spotipy, of requests, and the
\* KeyError of an operation that misses a key in a Mob
Faults == {"SpotifyException", "ConnectionError", "ReadTimeout", "KeyError"}

Reconnects(type) == IsA(type, "ConnectionError") \/ IsA(type, "ReadTimeout")

\* the k-th call of the line is made inside the try block of a call of
\* _process_line_in: the calls of that block are the first calls of the
\* line, as the frames around it call after it has returned
InsideIn(st, chain, sents, k) ==
    \E i \in 1..Len(chain) :
       /\ Len(chain[i]) >= 2 /\ Head(chain[i]) = "in"
       /\ k <= Len(process_line(st, chain[i], sents).log)

\* the exception on its way to shell: `except KeyError` of _process_line_in
\* turns a KeyError of its try block into the ValueError for the name; no
\* other frame of the interpreter catches a collaborator's exception
Through(inside, fault, log) ==
    IF fault = "KeyError" /\ inside
    THEN Raise("ValueError", MSG_IN_INVALID, log)
    ELSE Raise(fault, "", log)

\* the run r of the line `tokens`, had its k-th call raised the exception
Faulted(st, tokens, sents, r, k, fault) ==
    Through(InsideIn(st, Descent(st, tokens, sents, Len(tokens) + 1), sents, k),
            fault, SubSeq(r.log, 1, k))

\* StateAfterFault, had the handler started over with what login() returns
StateAfterFault_Fresh(st, type, n) == IF Reconnects(type) THEN Session(n) ELSE st

\* `state` after an except clause for a collaborator's exception: the last
\* one assigns State(login().api, state[1], state[2]), with the n-th login
StateAfterFault(st, type, n) ==
    IF Reconnects(type) THEN State(Session(n).api, st.mob, st.subshells) ELSE st

\* the line is handled, and the first call that goes to the service raises
FaultWithin(tokens, r, fault) ==
    /\ Reconnects(fault) => logins < MaxLogins
    /\ line' = tokens
    /\ prev' = state
    /\ status' = WORK
    /\ invoked' = Calls(r.log)
    /\ fetched' = Fetches(r.log)
    /\ state' = StateAfterFault(state, r.err.type, logins + 1)
    /\ logins' = IF Reconnects(fault) THEN logins + 1 ELSE logins
    /\ outcome' = [ok |-> FALSE, type |-> r.err.type, msg |-> r.err.msg,
                   printed |-> Report(r.err)]
    /\ pc' = IF Caught(r.err) THEN "done" ELSE "crashed"

\* input() returns a line other than exit and logout..., and the service
\* fails at the first call the line makes to it
TypeLineFault(raw, fault) ==
    /\ pc = "prompt"
    /\ raw # LINE_EXIT /\ ~IsLogout(raw)
    /\ \E tokens \in {split(raw, <<>>)} :
          \E r \in {RunLine(state, tokens, sentences)} :
             \E k \in 1..Len(r.log) :
                /\ Contacts(r.log[k])
                /\ \A j \in 1..(k - 1) : ~Contacts(r.log[j])
                /\ FaultWithin(tokens,
                               Faulted(state, tokens, sentences, r, k, fault),
                               fault)
    /\ typed' = raw
    /\ idiom' = Followed(idiom, raw, state)
    /\ UNCHANGED <<sentences, revoked, scanvars>>

\* input() returns a line that begins with logout: logout() removes the
\* cache or fails to; after a removal Enter is awaited and login() called
TypeLogout(raw, removed) ==
    /\ pc = "prompt"
    /\ raw # LINE_EXIT /\ IsLogout(raw)
    /\ removed => logins < MaxLogins
    /\ typed' = raw
    /\ line' = <<>>
    /\ prev' = state
    /\ status' = WORK
    /\ invoked' = <<>>
    /\ fetched' = <<>>
    /\ logins' = IF removed THEN logins + 1 ELSE logins
    /\ revoked' = IF removed THEN revoked \cup {state.api} ELSE revoked
    /\ state' = StateAfterLogout(state, removed, logins + 1)
    /\ outcome' = IF removed THEN NoOutcome
                  ELSE [ok |-> FALSE, type |-> "", msg |-> "Logout failed",
                        printed |-> "Logout failed"]
    /\ idiom' = [step |-> 0, main |-> login]
    /\ pc' = "done"
    /\ UNCHANGED <<sentences, scanvars>>

\* input() returns "exit": the loop ends, status = SAFE is returned
TypeExit ==
    /\ pc = "prompt"
    /\ typed' = LINE_EXIT
    /\ pc' = "exited"
    /\ status' = SAFE
    /\ UNCHANGED <<sentences, state, line, prev, outcome, invoked, fetched>>
    /\ UNCHANGED <<logins, revoked, idiom, scanvars>>

LoopNext ==
    \/ \E raw \in TypedLines : TypeLine(raw)
    \/ \E raw \in TypedLines, fault \in Faults : TypeLineFault(raw, fault)
    \/ \E raw \in TypedLines, removed \in BOOLEAN : TypeLogout(raw, removed)
    \/ TypeExit
    \/ Idle

LoopSpec == Init /\ [][LoopNext]_vars

-----------------------------------------------------------------------------
(* Properties of the line interpreter, stated on the line just handled:     *)
(* `line` was interpreted against `prev`, `state` is the session's State    *)
(* after it, `outcome` the error it ended with, `invoked` the sentence      *)
(* calls it made.                                                           *)

Handled == pc \in {"done", "crashed"}

\* the first token is neither a control word nor a registered sentence
FreeName(token) == token \notin ControlWords /\ token \notin DOMAIN sentences

Failed(type, msg) == ~outcome.ok /\ outcome.type = type /\ outcome.msg = msg

\* C1: a line `T rest` whose first token is not a control word, not a
\* sentence name and not a subshell of S stores under T the State that rest
\* gives when it is interpreted against S and applied to S, and keeps the
\* focus of S; `sub open X` stores the result of `open X` on the old focus.
C1_ScopeDefinition ==
    (Handled /\ line # <<>> /\ FreeName(Head(line))
        /\ Head(line) \notin DOMAIN prev.subshells)
    => LET T == Head(line)
           inner == RunLine(prev, Tail(line), sentences)
       IN  /\ inner.ok =>
                /\ outcome.ok
                /\ T \in DOMAIN state.subshells
                /\ state.subshells[T] = inner.val
                /\ state.mob = prev.mob
           /\ (line = <<"sub", "open", "X">>) =>
                /\ outcome.ok
                /\ state.subshells["sub"] = State(prev.api, "X", prev.subshells)
                /\ state.mob = prev.mob

C1_Witness ==
    /\ pc = "done" /\ outcome.ok
    /\ line = <<"sub", "open", "X">>
    /\ "sub" \notin DOMAIN prev.subshells
    /\ state.subshells["sub"].mob = "X"
    /\ state.mob = Me

\* C2: for an existing subshell, `in sub after open Y` leaves in the entry
\* `sub` the State that open Y gives on sub's own stored State (its focus
\* handle and Scope Store), not on the main State.
C2_ScopeExtension ==
    (Handled /\ Len(line) = 5 /\ line[1] = "in" /\ line[3] = "after"
        /\ line[4] = "open" /\ line[5] \notin ControlWords
        /\ line[2] \in DOMAIN prev.subshells)
    => LET opened == ss_open(prev.subshells[line[2]], Text(line[5]))
       IN  opened.ok =>
             /\ outcome.ok
             /\ state.subshells[line[2]] = opened.val
             /\ state.subshells[line[2]].subshells = prev.subshells[line[2]].subshells

C2_Witness ==
    /\ pc = "done" /\ outcome.ok
    /\ line = <<"in", "sub", "after", "open", "Y">>
    /\ state.subshells["sub"].mob = "Y"
    /\ prev.subshells["sub"].mob # "Y"
    /\ state.subshells["sub"].subshells # prev.subshells

\* C3: `in X rest` on an existing subshell X, when it succeeds, leaves the
\* main focus, the session handle and every Scope Store entry other than X
\* as they were.
C3_InFrame ==
    (Handled /\ Len(line) >= 2 /\ line[1] = "in"
        /\ line[2] \in DOMAIN prev.subshells /\ outcome.ok)
    => /\ state.mob = prev.mob
       /\ state.api = prev.api
       /\ DOMAIN state.subshells = DOMAIN prev.subshells
       /\ \A k \in DOMAIN prev.subshells \ {line[2]} :
             state.subshells[k] = prev.subshells[k]

C3_Witness ==
    /\ pc = "done" /\ outcome.ok
    /\ Len(line) >= 2 /\ line[1] = "in"
    /\ Cardinality(DOMAIN prev.subshells) >= 2
    /\ line[2] \in DOMAIN prev.subshells
    /\ state.subshells[line[2]] # prev.subshells[line[2]]

\* C4 as stated: in `in X rest` the rest is interpreted against X's stored
\* State, so the entry X ends as rest run wholly on X's stored State.
C4_RestAgainstSubshell ==
    (Handled /\ Len(line) >= 2 /\ line[1] = "in"
        /\ line[2] \in DOMAIN prev.subshells /\ outcome.ok)
    => LET onX == RunLine(prev.subshells[line[2]], SubSeq(line, 3, Len(line)),
                          sentences)
       IN  onX.ok /\ state.subshells[line[2]] = onX.val

\* C4 amended: in `in X rest` the rest is interpreted against the main
\* State (its focus and Scope Store resolve track references, pipelines,
\* subshell loads and definitions); only the sentence that results is
\* applied to X's stored State.
C4_RestAgainstMain ==
    (Handled /\ Len(line) >= 2 /\ line[1] = "in"
        /\ line[2] \in DOMAIN prev.subshells)
    => LET rest == process_line(prev, SubSeq(line, 3, Len(line)), sentences)
       IN  rest.ok =>
             LET applied == Apply(rest.val.sentence, prev.subshells[line[2]],
                                  rest.val.query)
             IN  applied.ok =>
                   outcome.ok /\ state.subshells[line[2]] = applied.val

\* a successful `in X rest` whose rest means one thing on the main State and
\* another on X's stored State
C4_Witness ==
    /\ pc = "done" /\ outcome.ok
    /\ Len(line) >= 3 /\ line[1] = "in"
    /\ line[2] \in DOMAIN prev.subshells
    /\ LET onX == RunLine(prev.subshells[line[2]], SubSeq(line, 3, Len(line)),
                          sentences)
       IN  ~onX.ok \/ onX.val # state.subshells[line[2]]

\* C5 as stated: `in name ...` with a name that is not a subshell always
\* fails with the invalid-subshell-name error.
C5_InvalidNameAlwaysCited ==
    (Handled /\ Len(line) >= 2 /\ line[1] = "in"
        /\ line[2] \notin DOMAIN prev.subshells)
    => Failed("ValueError", MSG_IN_INVALID)

\* C6: a line that is exactly the name of a subshell (not a control word, not
\* a sentence name) returns a sentence that yields the stored State whatever
\* State and Query it is given, so the session's State becomes the snapshot.
C6_ScopeLoad ==
    (Handled /\ Len(line) = 1 /\ FreeName(line[1])
        /\ line[1] \in DOMAIN prev.subshells)
    => LET r == process_line(prev, line, sentences)
       IN  /\ outcome.ok
           /\ state = prev.subshells[line[1]]
           /\ r.ok
           /\ \A subject \in {prev, state, login} :
                \A query \in {Text(""), Text("X"), MobQuery(EmptyMob)} :
                    Apply(r.val.sentence, subject, query)
                        = Ok(prev.subshells[line[1]], <<>>)

C6_Witness ==
    /\ pc = "done" /\ outcome.ok
    /\ Len(line) = 1 /\ line[1] \in DOMAIN prev.subshells
    /\ state = prev.subshells[line[1]]
    /\ state.mob # prev.mob
    /\ state.subshells # prev.subshells

\* C7: a line that starts with the name of a subshell and has more tokens
\* fails with the subshell-loading error, whatever the tokens, and the State
\* stays as it was.
C7_LoadTakesNoParameter ==
    (Handled /\ Len(line) >= 2 /\ FreeName(line[1])
        /\ line[1] \in DOMAIN prev.subshells)
    => /\ Failed("ValueError", MsgLoadParam(line[1]))
       /\ pc = "done"
       /\ state = prev
       /\ invoked = <<>>

C7_Witness ==
    /\ pc = "done" /\ ~outcome.ok
    /\ Len(line) = 3 /\ line[1] = "sub" /\ line[2] = "open"
    /\ "sub" \in DOMAIN prev.subshells
    /\ outcome.msg = MsgLoadParam("sub")

\* what the line does if its first token is taken as a reserved control word
AsControl ==
    CASE line[1] = "in" -> _process_line_in(prev, Tail(line), sentences)
      [] line[1] = "after" -> process_line(prev, Tail(line), sentences)
      [] line[1] = "track" -> _process_line_track_load(prev, Tail(line))
      [] OTHER -> Ok([sentence |-> _identity_state, query |-> MobQuery(EmptyMob)],
                     <<>>)

\* C8: the first token is resolved in the order control word, sentence
\* registry, Scope Store, definition: a sentence registered as `track` is not
\* called by a line that starts with `track`, a subshell whose name is a
\* sentence name is not loaded, and an existing subshell is not redefined.
C8_DispatchPrecedence ==
    (Handled /\ line # <<>>)
    => /\ line[1] \in ControlWords =>
            /\ process_line(prev, line, sentences) = AsControl
            /\ line[1] \in DOMAIN sentences /\ line[1] = "track" =>
                 \A i \in 1..Len(invoked) : invoked[i].id # sentences[line[1]]
       /\ (line[1] \notin ControlWords /\ line[1] \in DOMAIN sentences) =>
            /\ outcome.ok => invoked # <<>>
            /\ invoked # <<>> =>
                 /\ invoked[Len(invoked)].id = sentences[line[1]]
                 /\ invoked[Len(invoked)].subject = prev
       /\ (FreeName(line[1]) /\ line[1] \in DOMAIN prev.subshells /\ outcome.ok) =>
            state = prev.subshells[line[1]]

\* a line `track 1` that loads the first track although a sentence is
\* registered as `track`
C8_Witness ==
    /\ pc = "done" /\ outcome.ok
    /\ line = <<"track", "1">>
    /\ "track" \in DOMAIN sentences
    /\ invoked = <<>>
    /\ prev.mob = "X" /\ state.mob = "t1"

\* C9: `op t1 ... tn` with t1 not a control word calls op on the State with
\* the literal text "t1 t2 ... tn": the peeked token comes first, the tokens
\* are joined by single spaces, none is lost or doubled.
C9_LiteralParameter ==
    (Handled /\ Len(line) >= 2 /\ line[1] \notin ControlWords
        /\ line[1] \in DOMAIN sentences /\ line[2] \notin ControlWords)
    => /\ invoked = << [id |-> sentences[line[1]], subject |-> prev,
                        query |-> Text(Join(Tail(line)))] >>
       /\ process_line(prev, line, sentences)
            = Ok([sentence |-> Registered(sentences[line[1]]),
                  query |-> Text(Join(Tail(line)))], <<>>)
       /\ (line = <<"open", "sub", "X">>) => invoked[1].query = Text("sub X")
       /\ (line = <<"open", "X">>) => invoked[1].query = Text("X")

C9_Witness ==
    /\ pc = "done"
    /\ line = <<"open", "sub", "X">>
    /\ Len(invoked) = 1
    /\ invoked[1].query = Text("sub X")

\* C10: `op in ...` fails with the error that a parameter may not start with
\* 'in'; no sentence is called and the State stays as it was.
C10_ParameterMayNotStartWithIn ==
    (Handled /\ Len(line) >= 2 /\ line[1] \notin ControlWords
        /\ line[1] \in DOMAIN sentences /\ line[2] = "in")
    => /\ Failed("ValueError", MSG_IN_PARAM)
       /\ pc = "done"
       /\ invoked = <<>>
       /\ state = prev

C10_Witness ==
    /\ pc = "done" /\ ~outcome.ok
    /\ line = <<"open", "in", "sub">>
    /\ "sub" \in DOMAIN prev.subshells
    /\ outcome.msg = MSG_IN_PARAM
    /\ state = prev

\* the line is `op w ...`: a registered sentence name, then the token w
OpThen(w) ==
    /\ Len(line) >= 2
    /\ line[1] \notin ControlWords /\ line[1] \in DOMAIN sentences
    /\ line[2] = w

\* the tokens of the line from the i-th on
From(i) == SubSeq(line, i, Len(line))

\* the call of sentence line[1] on the State before the line
CallOf(query) == [id |-> sentences[line[1]], subject |-> prev, query |-> query]

\* C11: `op nom t1 ... tn` returns op paired with the literal text
\* "t1 ... tn": the tokens after `nom` are not interpreted, a control word, a
\* sentence name or a subshell name among them is text, and `nom` itself is
\* not in the text; `open nom nom` asks for "nom", `open nom in X` for "in X".
C11_NomEscape ==
    (Handled /\ OpThen("nom"))
    => /\ process_line(prev, line, sentences)
            = Ok([sentence |-> Registered(sentences[line[1]]),
                  query |-> Text(Join(From(3)))], <<>>)
       /\ invoked = << CallOf(Text(Join(From(3)))) >>
       /\ fetched = <<>>
       /\ (line = <<"open", "nom", "nom">>) => invoked[1].query = Text("nom")
       /\ (line = <<"open", "nom", "in", "X">>) => invoked[1].query = Text("in X")

C11_Witness ==
    /\ pc = "done"
    /\ line = <<"open", "nom", "in", "X">>
    /\ invoked = << [id |-> "ss_open", subject |-> prev, query |-> Text("in X")] >>
    /\ "X" # prev.mob

\* C12: `op after L` interprets L against the State before the line and
\* applies L's sentence to that State; the focus M of the State this gives is
\* the Query paired with op, and op is then called on the State before the
\* line with M.
C12_Pipeline ==
    (Handled /\ OpThen("after"))
    => LET inner == process_line(prev, From(3), sentences)
       IN  inner.ok =>
             LET applied == Apply(inner.val.sentence, prev, inner.val.query)
             IN  applied.ok =>
                   /\ process_line(prev, line, sentences).ok
                   /\ process_line(prev, line, sentences).val
                        = [sentence |-> Registered(sentences[line[1]]),
                           query |-> MobQuery(applied.val.mob)]
                   /\ invoked # <<>>
                   /\ invoked[Len(invoked)] = CallOf(MobQuery(applied.val.mob))

C12_Witness ==
    /\ pc = "done" /\ outcome.ok
    /\ line = <<"open", "after", "open", "X">>
    /\ prev.mob # "X"
    /\ invoked = << [id |-> "ss_open", subject |-> prev, query |-> Text("X")],
                    [id |-> "ss_open", subject |-> prev, query |-> MobQuery("X")] >>
    /\ state.mob = "X"

\* C13: the empty line is interpreted as the identity sentence paired with
\* the absent Query; the session handle, the focus and the Scope Store stay
\* as they were and nothing is called.
C13_EmptyLine ==
    (Handled /\ line = <<>>)
    => /\ process_line(prev, line, sentences)
            = Ok([sentence |-> [f |-> "identity"], query |-> MobQuery(EmptyMob)],
                 <<>>)
       /\ outcome.ok /\ pc = "done"
       /\ state = prev
       /\ invoked = <<>> /\ fetched = <<>>

C13_Witness ==
    /\ pc = "done" /\ outcome.ok
    /\ line = <<>>
    /\ state = prev
    /\ state.mob # Me /\ state.subshells # NoSubshells

\* the items of the first page and of the k pages after it
Materialized(mob, k) ==
    Len(PageZero(mob)) + Len(Flatten(SubSeq(NextPages(mob), 1, k)))

\* C14 as stated: `op track N` with N >= 1 on a focus with a track listing:
\* if the first page holds N items, item N is the Query and no page is
\* requested; otherwise the pages after it are requested in order, each once,
\* up to the first page that holds item N, or all of them if the listing is
\* shorter.
C14_LazyPaging ==
    (Handled /\ OpThen("track") /\ Len(line) = 3 /\ line[3] \in IntTokens
        /\ ParseInt(line[3]) >= 1 /\ HasTracks(prev.mob))
    => LET N == ParseInt(line[3])
           mob == prev.mob
       IN  /\ N <= Len(PageZero(mob)) =>
                /\ fetched = <<>>
                /\ invoked = << CallOf(MobQuery(PageZero(mob)[N])) >>
           /\ N > Len(PageZero(mob)) =>
                /\ Len(fetched) <= Len(NextPages(mob))
                /\ \A i \in 1..Len(fetched) :
                      fetched[i].query = Text(NextUrl(mob, i))
                /\ N <= Len(AllTracks(mob)) =>
                      /\ Materialized(mob, Len(fetched)) >= N
                      /\ Materialized(mob, Len(fetched) - 1) < N
                      /\ invoked = << CallOf(MobQuery(AllTracks(mob)[N])) >>
                /\ N > Len(AllTracks(mob)) =>
                      Len(fetched) = Len(NextPages(mob))

\* the tokens after `track`, for a line `track ...` or `op track ...`
TrackArgs == IF line[1] = "track" THEN From(2) ELSE From(3)

IsTrackLine ==
    \/ Len(line) >= 2 /\ line[1] = "track"
    \/ Len(line) >= 3 /\ OpThen("track")

\* C15 as stated: `track N ...` with an integer N greater than the number of
\* items of the focus's listing fails with an error, and yields no Mob,
\* whatever follows N.
C15_ExhaustedIndexFails ==
    (Handled /\ IsTrackLine /\ Head(TrackArgs) \in IntTokens
        /\ HasTracks(prev.mob)
        /\ ParseInt(Head(TrackArgs)) > Len(AllTracks(prev.mob)))
    => /\ ~outcome.ok /\ outcome.type = "ValueError"
       /\ invoked = <<>>
       /\ state = prev

\* C16 as stated: `track w1 ... wn` with w1 not an integer, and
\* `track nom w1 ... wn`, match "w1 ... wn" without regard to case against
\* the names of the focus's tracks, for n >= 1: the first track in listing
\* order with that name is the result, and the line fails if there is none.
C16_NameLookup ==
    (Handled /\ Len(line) >= 2 /\ line[1] = "track" /\ line[2] \notin IntTokens)
    => LET words == IF line[2] = "nom" THEN From(3) ELSE From(2)
           all == iter_mob_track(prev.mob)
           hits == {i \in 1..Len(all) : LowerName(all[i]) = JoinLower(words)}
       IN  words # <<>> =>
             IF hits = {}
             THEN ~outcome.ok /\ outcome.type = "ValueError"
             ELSE /\ outcome.ok
                  /\ state.mob = all[CHOOSE i \in hits : \A j \in hits : i <= j]

\* C17 as stated: a line that starts with `track` returns the identity
\* sentence, so the State, its focus included, stays as it was.
C17_TrackLoadKeepsState ==
    (Handled /\ Len(line) >= 2 /\ line[1] = "track" /\ outcome.ok)
    => /\ process_line(prev, line, sentences).val.sentence = [f |-> "identity"]
       /\ state = prev

\* C17 amended: a line that starts with `track` returns an empty Query
\* paired with a sentence that, whatever it is applied to, returns the State
\* before the line with the resolved Mob as its focus: the focus is replaced,
\* the session handle and the Scope Store are kept, no sentence is called.
C17_TrackLoadSetsFocus ==
    (Handled /\ Len(line) >= 2 /\ line[1] = "track")
    => LET mob == _process_line_track(prev, Tail(line))
           r == process_line(prev, line, sentences)
       IN  mob.ok =>
             /\ outcome.ok
             /\ state = State(prev.api, mob.val.mob, prev.subshells)
             /\ r.ok /\ r.val.query = Text("")
             /\ \A subject \in {prev, state, login} :
                    Apply(r.val.sentence, subject, r.val.query).val = state
             /\ invoked = <<>>

C17_Witness ==
    /\ pc = "done" /\ outcome.ok
    /\ line = <<"track", "1">>
    /\ prev.mob = "X" /\ state.mob = "t1"
    /\ prev.subshells # NoSubshells
    /\ state.subshells = prev.subshells

\* C18 as stated: no line ends the session loop: whatever error a line
\* raises is printed and the loop reads the next line.
C18_NoLineEndsLoop == pc # "crashed"

\* C19: when a line fails, in its interpretation or in a sentence it calls,
\* also inside the rest of a subshell definition, of an `in` line or of a
\* pipeline, the session's State keeps its focus and its Scope Store; no
\* entry is recorded for a definition that failed.
C19_StateUnchangedOnError ==
    (Handled /\ ~outcome.ok)
    => /\ state.mob = prev.mob
       /\ state.subshells = prev.subshells
       /\ state.api = prev.api

\* a subshell definition whose rest called a sentence that failed
C19_Witness ==
    /\ pc = "done" /\ ~outcome.ok /\ outcome.type = "NoResultsError"
    /\ line = <<"sub", "open", "sub">>
    /\ invoked # <<>>
    /\ "sub" \notin DOMAIN state.subshells
    /\ state = prev /\ state # login

-----------------------------------------------------------------------------
(* Properties of the boundary scanner, stated when parse_input has ended *)

Scanned == spc \in {"yielded", "raised"}

\* C20 as stated: for a line that is empty or made of spaces only, the
\* scanner yields no token at all.
C20_BlankLineNoTokens ==
    (Scanned /\ \A k \in 1..Len(rawin) : rawin[k] = SPACE)
    => spc = "yielded" /\ yielded = <<>>

\* -- C21..C25: the tokens of the Boundary Scanner --------------------------

Unmarked(raw) == \A k \in 1..Len(raw) : raw[k] \notin {SQUOT, DQUOT, ESCAP}

\* the line without the spaces before its first and after its last
\* character that is not a space
RECURSIVE StripLeft(_)
StripLeft(raw) ==
    IF raw # <<>> /\ Head(raw) = SPACE THEN StripLeft(Tail(raw)) ELSE raw

RECURSIVE StripRight(_)
StripRight(raw) ==
    IF raw # <<>> /\ raw[Len(raw)] = SPACE
    THEN StripRight(SubSeq(raw, 1, Len(raw) - 1)) ELSE raw

Strip(raw) == StripRight(StripLeft(raw))

\* the maximal runs of characters other than the space, in order; word is
\* the run being read
RECURSIVE Runs(_, _)
Runs(raw, word) ==
    IF raw = <<>> THEN (IF word = <<>> THEN <<>> ELSE <<word>>)
    ELSE IF Head(raw) = SPACE
    THEN (IF word = <<>> THEN <<>> ELSE <<word>>) \o Runs(Tail(raw), <<>>)
    ELSE Runs(Tail(raw), Append(word, Head(raw)))

\* the escape marker at k is itself not escaped: the run of escape markers
\* that ends at k has odd length
RECURSIVE EscapesEndingAt(_, _)
EscapesEndingAt(raw, k) ==
    IF k >= 1 /\ raw[k] = ESCAP THEN 1 + EscapesEndingAt(raw, k - 1) ELSE 0

EscapedAt(raw, k) == k > 1 /\ EscapesEndingAt(raw, k - 1) % 2 = 1

\* C21 as stated: unquoted, unescaped spaces before the first and after the
\* last token add no token; the output is that of the stripped line and
\* holds no empty token.
C21_OuterSpacesAddNoToken ==
    (Scanned /\ Unmarked(rawin) /\ Strip(rawin) # <<>>)
    => /\ spc = "yielded"
       /\ parse_input(Strip(rawin)) = Ok(yielded, <<>>)
       /\ \A k \in 1..Len(yielded) : yielded[k] # <<>>

\* C22 as stated: a line of ordinary characters and spaces yields exactly
\* its maximal runs of ordinary characters, in order.
C22_SimpleLineYieldsItsWords ==
    (Scanned /\ Unmarked(rawin))
    => spc = "yielded" /\ yielded = Runs(rawin, <<>>)

\* C23 as stated: an escaped space does not split a token and the escape
\* marker is not part of the token; a, backslash, space, b is the one token
\* "a b".
C23_EscapedSpaceDoesNotSplit ==
    /\ (Scanned /\ rawin = RAW_ESCAPED_SPACE)
       => spc = "yielded" /\ yielded = << <<"a", " ", "b">> >>
    /\ (/\ Scanned /\ rawin # <<>>
        /\ \A k \in 1..Len(rawin) :
              /\ rawin[k] \notin {SQUOT, DQUOT}
              /\ rawin[k] = SPACE => EscapedAt(rawin, k))
       => spc = "yielded" /\ Len(yielded) = 1

\* C24 as stated: spaces inside a balanced quoted region do not split the
\* token and the quotes are not part of it.
C24_QuotedRegionIsOneToken ==
    (Scanned /\ rawin = RAW_LOVE_ME)
    => /\ spc = "yielded"
       /\ yielded = << <<"o", "p", "e", "n">>,
                       <<"l", "o", "v", "e", " ", "m", "e">>,
                       <<"t", "r", "a", "c", "k">> >>

\* C25 as stated: the scanner has no error state; every line, also one with
\* an unbalanced quote or a trailing escape marker, gives a token sequence
\* after one pass, and an unclosed quoted region reaches to the end of the
\* line.
C25_ScannerNeverFails ==
    /\ spc # "raised"
    /\ pos <= Len(rawin)
    /\ (Scanned /\ rawin = RAW_UNBALANCED)
       => yielded = << <<"o", "p", "e", "n">>, <<"l", "o", "v", "e">> >>

\* -- C26..C30: the session loop over raw lines -----------------------------

\* the last line was handed to the Line Interpreter
Interpreted == Handled /\ ~IsLogout(typed)

Strs(toks) == [k \in 1..Len(toks) |-> Str(toks[k])]

\* C26 as stated: the tokens handed to the Line Interpreter are the output
\* of the Boundary Scanner for the line, so a quoted phrase with a space, or
\* an escaped space, arrives as one token.
C26_ScannerFeedsInterpreter ==
    Interpreted
    => /\ parse_input(typed).ok
       /\ line = Strs(parse_input(typed).val)
       /\ (typed = LINE_QUOTED) => line = <<"open", "X X">>
       /\ (typed = LINE_ESCAPED) => line = <<"open", "X X">>

\* the name a line writes under at the top: the token after `in`, or a
\* first token that is no control word, no sentence and no scope
Writes ==
    /\ line # <<>>
    /\ \/ Head(line) = "in"
       \/ FreeName(Head(line)) /\ Head(line) \notin DOMAIN prev.subshells

WrittenName == IF Head(line) = "in" THEN line[2] ELSE Head(line)

OneEntryWritten(before, after, name) ==
    /\ DOMAIN after.subshells = DOMAIN before.subshells \cup {name}
    /\ \A k \in DOMAIN before.subshells \ {name} :
          after.subshells[k] = before.subshells[k]
    /\ after.mob = before.mob
    /\ after.api = before.api

\* C27: a write to the Scope Store, by a scope definition or by an `in`
\* line, adds or replaces exactly one entry: every other entry of the
\* written State is there afterwards with the same stored State, and the
\* focus Mob and the session handle of the written State are unchanged.
\* `in subsh backtomain` writes twice when the main State has no scope
\* backtomain: backtomain into the State stored under subsh, and subsh into
\* the main State.
C27_WriteKeepsOtherEntries ==
    (Interpreted /\ outcome.ok /\ Writes)
    => /\ OneEntryWritten(prev, state, WrittenName)
       /\ (/\ line = <<"in", "subsh", "backtomain">>
           /\ "backtomain" \notin DOMAIN prev.subshells)
          => OneEntryWritten(prev.subshells["subsh"],
                             state.subshells["subsh"], "backtomain")

C27_Witness ==
    /\ pc = "done" /\ outcome.ok
    /\ typed = LINE_BACKTOMAIN
    /\ DOMAIN prev.subshells = {"subsh"}
    /\ DOMAIN state.subshells = {"subsh", "backtomain"}
    /\ state.subshells["subsh"] = prev.subshells["subsh"]
    /\ state.subshells["backtomain"] = prev

\* C28: in a main State M with a scope subsh and without a scope
\* backtomain, the three lines `in subsh backtomain`, `subsh`, `backtomain`
\* end in a State equal to M.
C28_SaveAndRestore ==
    (idiom.step = 3) => outcome.ok /\ state = idiom.main

C28_Witness ==
    /\ pc = "done" /\ idiom.step = 3
    /\ typed = LINE_BACKTOMAIN
    /\ prev.mob = "X" /\ DOMAIN prev.subshells = {"backtomain"}
    /\ state = idiom.main
    /\ state.mob = Me
    /\ DOMAIN state.subshells = {"subsh"}
    /\ state.subshells["subsh"].mob = "X"

\* C29 as stated: the line exit ends the loop with the status SAFE, without
\* interpreting the line or invoking an operation; after every other line
\* the loop is back at the prompt in the status IDLE.
C29_ExitEndsOthersReturn ==
    /\ (pc = "exited")
       => /\ status = SAFE /\ typed = LINE_EXIT
          /\ invoked = <<>> /\ state = prev
    /\ (pc = "prompt") => status = IDLE
    /\ Handled => pc = "done"

\* C30 as stated: every line that begins with logout invalidates the
\* session and is followed by a login before the next line is interpreted;
\* no later line is interpreted against the State current before it, nor
\* against any State of its session.
C30_LogoutAlwaysRevokes ==
    /\ (pc = "done" /\ IsLogout(typed))
       => /\ prev.api \in revoked
          /\ state = Session(logins) /\ state.api \notin revoked
    /\ Interpreted => prev.api \notin revoked

\* C30, amended: a logout line whose cache removal succeeds is followed by
\* a login, and no later line is interpreted against the State that was
\* current before it, nor against any State of its session; when the
\* removal fails, "Logout failed" is reported and the State stays as it was.
C30_LogoutRevokesWhenRemoved ==
    /\ (pc = "done" /\ IsLogout(typed) /\ outcome.ok)
       => /\ prev.api \in revoked
          /\ state = Session(logins) /\ state.api \notin revoked
    /\ (pc = "done" /\ IsLogout(typed) /\ ~outcome.ok)
       => Failed("", "Logout failed") /\ state = prev
    /\ Interpreted => prev.api \notin revoked

C30_Witness ==
    /\ pc = "done" /\ Interpreted /\ outcome.ok
    /\ typed = LINE_DEFINE
    /\ revoked # {}
    /\ prev = Session(2)
    /\ state.subshells["subsh"].api = Api(2)

\* -- C31..C33: escapes and quoted regions of the Boundary Scanner ----------

\* the line with every unescaped escape marker dropped and the character
\* after it kept
RECURSIVE Unescape(_)
Unescape(raw) ==
    IF raw = <<>> THEN <<>>
    ELSE IF Head(raw) # ESCAP THEN <<Head(raw)>> \o Unescape(Tail(raw))
    ELSE IF Len(raw) = 1 THEN <<>>
    ELSE <<raw[2]>> \o Unescape(SubSeq(raw, 3, Len(raw)))

\* every space, quote and escape marker of the line is escaped, or is the
\* escape marker that escapes the next character
AllEscaped(raw) ==
    \A k \in 1..Len(raw) :
       raw[k] \in SPEC
       => \/ EscapedAt(raw, k)
          \/ raw[k] = ESCAP /\ k < Len(raw)

\* C31 as stated: an escape marker before any character is dropped and the
\* character after it is kept as an ordinary character of the token; a,
\* backslash, backslash, b is the token a, backslash, b.
C31_EscapedCharactersKept ==
    /\ (Scanned /\ rawin = RAW_ESCAPED_ESCAPE)
       => spc = "yielded" /\ yielded = << <<"a", "\\", "b">> >>
    /\ (Scanned /\ rawin # <<>> /\ AllEscaped(rawin))
       => spc = "yielded" /\ yielded = << Unescape(rawin) >>

\* the mode of a region opened by the quote character q
Region(q) == watchdog(q, {})

InRegion == mode.m = "watch" /\ mode.flag_char \in {SQUOT, DQUOT}

\* the mode is the escape mode that goes back to the mode md
EscapeTo(md, escape) == escape.m = "escape" /\ escape.mode = md

\* the first loop gives the character at pos to the mode
Scans == spc = "scan" /\ pos < Len(rawin) /\ pos' = pos + 1

\* C32: inside a region opened by the quote character q, a space, the other
\* quote character and every ordinary character leave the scanner in the
\* region and add no flag; only q, not escaped, ends the region.
C32_OnlyItsQuoteEndsRegion ==
    [][(Scans /\ InRegion)
       => /\ (rawin[pos + 1] \notin {mode.flag_char, ESCAP})
             => mode' = mode /\ flags' = flags
          /\ (rawin[pos + 1] = ESCAP)
             => EscapeTo(mode, mode') /\ flags' = flags
          /\ (mode' # mode /\ ~EscapeTo(mode, mode'))
             => rawin[pos + 1] = mode.flag_char]_vars

C32_Witness ==
    /\ spc = "scan" /\ pos = 3
    /\ rawin = <<DQUOT, SPACE, SQUOT>>
    /\ mode = Region(DQUOT)
    /\ flags = <<>>

\* C33: the escape is one-shot and keeps the mode: the character after an
\* escape marker is consumed without a flag and the scanner is back in the
\* mode the marker was read in (normal scanning, or the region of q, which
\* an escaped q therefore does not close); a marker read in a boundary span
\* ends the span and goes back to normal scanning.
C33_EscapeKeepsMode ==
    [][Scans
       => /\ (mode.m = "escape") => mode' = mode.mode /\ flags' = flags
          /\ (mode.m = "watch" /\ rawin[pos + 1] = ESCAP)
             => EscapeTo(mode, mode')
          /\ (mode.m = "flag" /\ rawin[pos + 1] = ESCAP)
             => EscapeTo(default, mode')]_vars

C33_Witness ==
    /\ spc = "scan" /\ pos = 3
    /\ rawin = <<DQUOT, ESCAP, DQUOT>>
    /\ mode = Region(DQUOT)
    /\ flags = <<>>

\* -- C34, C35: what the session loop does with a collaborator's failure ----

\* C34: a 'no results' failure is reported with the message No Results and
\* never with the message ERROR: ..., although NoResultsError is a
\* ValueError, which the loop also handles.
C34_NoResultsMessage ==
    (Interpreted /\ ~outcome.ok /\ outcome.type = "NoResultsError")
    => /\ pc = "done"
       /\ outcome.printed = MSG_NO_RESULTS

C34_Witness ==
    /\ pc = "done" /\ typed = LINE_QUOTED
    /\ outcome.type = "NoResultsError"
    /\ invoked # <<>>
    /\ outcome.printed = MSG_NO_RESULTS

RECURSIVE Stores(_, _)
Stores(st, x) ==
    \E k \in DOMAIN st.subshells :
       st.subshells[k] = x \/ Stores(st.subshells[k], x)

\* the nested calls of process_line for the line last handled
Nested == Descent(prev, line, sentences, Len(line) + 1)

RECURSIVE KeysFree(_)
KeysFree(st) ==
    \A k \in DOMAIN st.subshells : FreeName(k) /\ KeysFree(st.subshells[k])

\* C37: in every reachable State, at every depth of stored States, no key
\* of a Scope Store is a control word or a name of the operation registry;
\* so the line that is the name of a stored scope loads it.
C37_KeysAreFreeNames ==
    /\ KeysFree(state)
    /\ \A k \in DOMAIN state.subshells :
          process_line(state, <<k>>, sentences)
             = Pair(Lambda(state.subshells[k]), Text(""), <<>>)

C37_Witness ==
    /\ pc = "done" /\ outcome.ok
    /\ line = <<"in", "sub", "X", "sub">>
    /\ DOMAIN state.subshells = {"sub"}
    /\ DOMAIN state.subshells["sub"].subshells = {"X"}
    /\ state.subshells["sub"].subshells["X"] = prev.subshells["sub"]

\* the State that L gives in the line `op after L` handled last
PipelineState == RunLine(prev, From(3), sentences)

\* C39: in `op after L` only the focus of the State L gives reaches op: op is
\* called on the State before the line, whose Scope Store has none of the
\* changes L made, with that focus as its Query, and the Scope Store and the
\* session handle of the main State after the line are those before it.
C39_PipelineDropsStoreChanges ==
    (Handled /\ OpThen("after") /\ PipelineState.ok)
    => /\ invoked # <<>>
       /\ invoked[Len(invoked)].id = sentences[line[1]]
       /\ invoked[Len(invoked)].subject = prev
       /\ invoked[Len(invoked)].subject.subshells = prev.subshells
       /\ invoked[Len(invoked)].query = MobQuery(PipelineState.val.mob)
       /\ state.subshells = prev.subshells
       /\ state.api = prev.api

\* `open after sub open X` in a State without `sub`: L defines the scope,
\* open is called on the State without it and the main store stays
C39_Witness ==
    /\ pc = "done" /\ outcome.ok
    /\ line = <<"open", "after", "sub", "open", "X">>
    /\ "sub" \notin DOMAIN prev.subshells
    /\ "sub" \in DOMAIN PipelineState.val.subshells
    /\ PipelineState.val.subshells["sub"].mob = "X"
    /\ invoked[Len(invoked)].subject = prev
    /\ "sub" \notin DOMAIN state.subshells

\* C38 as stated: the error for an invalid scope name after `in` is
\* reported only when a token that follows an `in` is not a key of the
\* Scope Store; with a valid name, a failure of the remainder or of the
\* operation applied to the scope's State is not reported as that error.
C38_InvalidNameOnlyForUnknownKey ==
    (Interpreted /\ Failed("ValueError", MSG_IN_INVALID))
    => \E i \in 1..(Len(line) - 1) :
          line[i] = "in" /\ line[i + 1] \notin DOMAIN prev.subshells

\* C40: `track N` with an integer N <= 0 returns no item by its position: a
\* line `track N ...` on a focus with tracks succeeds only when the lookup by
\* the name "N ..." finds a track, and then loads that track.
C40_NoIndexBelowOne ==
    (Handled /\ Len(line) >= 2 /\ line[1] = "track" /\ line[2] \in IntTokens
        /\ ParseInt(line[2]) <= 0 /\ HasTracks(prev.mob) /\ outcome.ok)
    => /\ TrackByName(prev, line[2] \o " " \o JoinLower(From(3))).ok
       /\ state.mob
            = TrackByName(prev, line[2] \o " " \o JoinLower(From(3))).val.mob

====
